---- MODULE Spec2Model ----
(***************************************************************************)
(* The IVR call-session engine of backend/ivr_simulator_backend.py: the    *)
(* menu graph MENU, the stores active_calls and call_history, and the      *)
(* handlers ivr_start, ivr_dtmf and ivr_end.                               *)
(*                                                                         *)
(* A Python str is a sequence of one-character strings, so that len, +=    *)
(* and str.isdigit are computed and not assumed.  A session dict lives at  *)
(* an address of heap; its two list objects (menu_path, inputs) live with  *)
(* it, and a shallow copy of the dict (call_history's entries) copies the  *)
(* scalars and keeps a reference to the same two lists.                    *)
(*                                                                         *)
(* Each handler is a sequence of steps (one per access to shared state).   *)
(* Spec runs every request to completion before the next one starts;       *)
(* SpecConc lets the worker threads of the server interleave their steps.  *)
(***************************************************************************)
EXTENDS Integers, Sequences, FiniteSets, TLC

\* ------------------------------------------------------------------ bounds
\* Sessions created in one run of a several-session profile.
MaxSessions == 2
\* Size of the id space random.randint draws from (the code: 900000).
NumIds == 2
\* Symbols submitted in one run of a PNR-entry profile (one session).
MaxInputs == 8
\* Symbols submitted in one run of a menu profile.
MaxMenuInputs == 3
\* Requests issued in one run under SpecConc.
MaxConcRequests == 3

\* random.randint(100000, 999999) draws from IdBase .. IdBase + 899999; a run
\* cuts the range to the first n ids.
IdBase == 100000
Ids(n) == IdBase .. (IdBase + n - 1)

\* The length of a PNR.
PnrLen == 6

\* The worker threads that serve the sync endpoints.
Threads == {1, 2}

\* The values a client sends as current_menu with a digit: the root, another
\* node, and a string that names no node.
ClientMenus == {"main", "flight_status", "nowhere"}

\* One run draws its symbols, caller numbers and ids from one profile and
\* stays within the profile's numbers of sessions and of submitted symbols.
Profile(symbols, callers, ids, sessions, inputs) ==
    [symbols |-> symbols, callers |-> callers, ids |-> ids,
     sessions |-> sessions, inputs |-> inputs]

Profiles ==
    { \* one caller keying a PNR: digits and the terminator
      Profile({<<"2">>, <<"1">>, <<"#">>}, {"+1555000"}, 1, 1, MaxInputs),
      \* one caller keying a PNR: the other keys and malformed symbols
      Profile({<<"2">>, <<"*">>, <<"1", "2">>}, {"+1555000"}, 1, 1, MaxInputs),
      Profile({<<"2">>, <<>>, <<"a">>}, {"+1555000"}, 1, 1, MaxInputs),
      \* several sessions walking the menus, ids drawn again and again
      Profile({<<"1">>, <<"9">>}, {"+1555000"}, NumIds, MaxSessions, MaxMenuInputs),
      \* the other submenus
      Profile({<<"2">>, <<"#">>, <<"7">>}, {"+1555000"}, 1, 1, MaxMenuInputs),
      Profile({<<"3">>, <<"4">>, <<"1">>, <<"0">>}, {"+1555000"}, 1, 1, MaxMenuInputs),
      Profile({<<"5">>, <<"6">>, <<"8">>, <<"0">>}, {"+1555000"}, 1, 1, MaxMenuInputs) }

\* The profiles of SpecConc: requests racing on one session.
ConcProfiles ==
    { Profile({<<"2">>, <<"1">>}, {"+1555000"}, 1, 1, MaxConcRequests),
      Profile({<<"1">>, <<"0">>}, {"+1555000"}, 1, 1, MaxConcRequests) }

\* ------------------------------------------------------------ Python strings
DigitChars == {"0", "1", "2", "3", "4", "5", "6", "7", "8", "9"}

\* str.isdigit: non-empty and every character a digit.
isdigit(s) == Len(s) > 0 /\ \A i \in 1..Len(s) : s[i] \in DigitChars

\* The terminator key.
Hash == <<"#">>

\* Every goto leads back to the root menu.
GotoMain(t, m) == [action |-> "goto", target |-> "main", msg |-> m]
\* ------------------------------------------------------------------ MENU
Goto(t, m) == [action |-> "goto", target |-> t, msg |-> m]
End(m) == [action |-> "end", msg |-> m]
\* An action kind that ivr_dtmf has no branch for.
TransferUnhandled(m) == [action |-> "forward", msg |-> m]
Transfer(m) == [action |-> "transfer", msg |-> m]
\* The terminator key leads back to the root menu.
LookupPnrGoesBack(m) == [action |-> "goto", target |-> "main", msg |-> m]
LookupPnr(m) == [action |-> "lookup_pnr", msg |-> m]

MENU ==
    [ main |->
        [ prompt |-> "Welcome to HarshAir. For quick access press:\n1 Booking\n2 Flight Status\n3 Baggage Help\n4 Refunds & Cancellations\n5 Seat Selection\n6 Loyalty & Miles\n7 Travel Advisory\n8 Feedback\n9 Talk to Agent",
          options |->
               (<<"1">> :> Goto("booking", "Booking selected. Redirecting to booking options."))
            @@ (<<"2">> :> Goto("flight_status", "Flight Status selected. We will ask for your PNR."))
            @@ (<<"3">> :> Goto("baggage", "Baggage help. Few options coming up."))
            @@ (<<"4">> :> Goto("refunds", "Refunds & cancellations. Please choose."))
            @@ (<<"5">> :> Goto("seat", "Seat selection. Help coming."))
            @@ (<<"6">> :> Goto("loyalty", "Loyalty program options."))
            @@ (<<"7">> :> Goto("advisory", "Travel advisory and guidelines."))
            @@ (<<"8">> :> Goto("feedback", "We appreciate feedback. Short survey."))
            @@ (<<"9">> :> Transfer("Connecting to an agent. Please hold.")) ],
      booking |->
        [ prompt |-> "Booking - Press 1 New booking, 2 Modify booking, 3 Cancel booking, 0 Back to main.",
          options |->
               (<<"1">> :> End("New booking selected. Our booking team will call you."))
            @@ (<<"2">> :> End("Modify booking selected. We will email details."))
            @@ (<<"3">> :> End("Cancel booking selected. Refund policy explained via email."))
            @@ (<<"0">> :> Goto("main", "Returning to main menu.")) ],
      flight_status |->
        [ prompt |-> "Please type your 6-digit PNR followed by the hash key.",
          options |-> (<<"#">> :> LookupPnr("Checking PNR...")) ],
      baggage |->
        [ prompt |-> "Baggage - Press 1 Lost item, 2 Excess baggage charges, 0 Back.",
          options |->
               (<<"1">> :> End("Lost item reported. We'll initiate tracing."))
            @@ (<<"2">> :> End("Excess baggage info: charges apply as per fare rules."))
            @@ (<<"0">> :> Goto("main", "Back to main menu.")) ],
      refunds |->
        [ prompt |-> "Refunds - Press 1 Fare rules, 2 Request refund, 0 Back.",
          options |->
               (<<"1">> :> End("Fare rules guided to your email."))
            @@ (<<"2">> :> End("Refund request received. We will process it."))
            @@ (<<"0">> :> Goto("main", "Back to main.")) ],
      seat |->
        [ prompt |-> "Seat Selection - Press 1 Aisle, 2 Window, 3 Extra legroom, 0 Back.",
          options |->
               (<<"1">> :> End("Aisle preference noted."))
            @@ (<<"2">> :> End("Window preference noted."))
            @@ (<<"3">> :> End("Extra legroom request recorded."))
            @@ (<<"0">> :> Goto("main", "Back to main.")) ],
      loyalty |->
        [ prompt |-> "Loyalty - Press 1 Check miles, 2 Redeem miles, 0 Back.",
          options |->
               (<<"1">> :> End("Miles balance will be sent to your registered email."))
            @@ (<<"2">> :> End("Redeem flow initiated. Agent will assist."))
            @@ (<<"0">> :> Goto("main", "Back to main.")) ],
      advisory |->
        [ prompt |-> "Travel advisory - Press 1 Covid rules, 2 Visa & docs, 0 Back.",
          options |->
               (<<"1">> :> End("Covid travel guidelines: check official site."))
            @@ (<<"2">> :> End("Visa & docs details: refer to airline website."))
            @@ (<<"0">> :> Goto("main", "Back to main.")) ],
      feedback |->
        [ prompt |-> "Feedback - Press 1 Rate 1-3, 2 Rate 4-5, 0 Back.",
          options |->
               (<<"1">> :> End("Thanks for your feedback. We'll improve."))
            @@ (<<"2">> :> End("Thanks! Glad you had a great experience."))
            @@ (<<"0">> :> Goto("main", "Back to main.")) ] ]

\* ------------------------------------------------------------------ state
VARIABLES
    active_calls,   \* the dict call_id -> session, in insertion order: <<[k, v]>>,
                    \* v the address of the session dict in heap
    call_history,   \* the list of archived (shallow-copied) session dicts
    heap,           \* the session dicts ever created, by address 1..Len(heap)
    clock,          \* datetime.now(): one tick per reading
    resp,           \* Spec: the request served last and its response
    th,             \* SpecConc: the worker threads' frames
    issued,         \* SpecConc: requests issued so far
    profile         \* the symbols and caller numbers of this run

vars == <<active_calls, call_history, heap, clock, resp, th, issued, profile>>

\* Python's None; a session dict has no "end_time" key until it is stamped.
None == 0

\* ---------------------------------------------------------- dict operations
\* k in d
HasKey(d, k) == \E i \in 1..Len(d) : d[i].k = k
\* d[k]
GetItem(d, k) == d[CHOOSE i \in 1..Len(d) : d[i].k = k].v
\* d[k] = v: a key already present keeps its place
SetItem(d, k, v) ==
    IF HasKey(d, k)
    THEN [i \in 1..Len(d) |-> IF d[i].k = k THEN [k |-> k, v |-> v] ELSE d[i]]
    ELSE Append(d, [k |-> k, v |-> v])
\* del d[k]
DelItem(d, k) == SelectSeq(d, LAMBDA e : e.k # k)
\* list(d.keys())
Keys(d) == [i \in 1..Len(d) |-> d[i].k]
\* the keys of an options dict, as a set
OptionKeys(node) == DOMAIN MENU[node].options

\* The process state the handlers share.
Store == [active_calls |-> active_calls, call_history |-> call_history,
          heap |-> heap, clock |-> clock]

\* session.copy(): the scalars by value, the two lists by reference.
Copy(g, a) ==
    [call_id |-> g.heap[a].call_id, caller_number |-> g.heap[a].caller_number,
     start_time |-> g.heap[a].start_time, current_menu |-> g.heap[a].current_menu,
     pnr_buffer |-> g.heap[a].pnr_buffer, end_time |-> g.heap[a].end_time,
     ref |-> a]

\* An archived record as a reader of call_history sees it.
Archived(g, i) ==
    [call_id |-> g.call_history[i].call_id,
     caller_number |-> g.call_history[i].caller_number,
     start_time |-> g.call_history[i].start_time,
     current_menu |-> g.call_history[i].current_menu,
     pnr_buffer |-> g.call_history[i].pnr_buffer,
     end_time |-> g.call_history[i].end_time,
     menu_path |-> g.heap[g.call_history[i].ref].menu_path,
     inputs |-> g.heap[g.call_history[i].ref].inputs]

\* ------------------------------------------------------------ new session
\* new_call_session: the dict is stored under cid whatever active_calls holds.
new_call_session(g, cid, caller_number) ==
    LET a == Len(g.heap) + 1
        session == [call_id |-> cid, caller_number |-> caller_number,
                    start_time |-> g.clock, current_menu |-> "main",
                    menu_path |-> <<"main">>, inputs |-> <<>>,
                    pnr_buffer |-> <<>>, end_time |-> None]
    IN  [g EXCEPT !.heap = Append(@, session),
                  !.active_calls = SetItem(@, cid, a),
                  !.clock = @ + 1]

\* ivr_start's response.
StartResponse(cid) ==
    [call_id |-> cid, status |-> "connected", prompt |-> MENU["main"].prompt]

\* ------------------------------------------------------------ thread frames
\* A worker thread's frame: the handler it runs (op), its arguments, its
\* locals, the place it is at (pc: the source line of its next access to
\* shared state), the response it will return after archiving (ret) and the
\* response it returned (result).
Idle ==
    [pc |-> "idle", op |-> "none", call_id |-> None, digit |-> <<>>,
     current_menu |-> "", session |-> None, menu_key |-> "", tmp |-> <<>>, target |-> "",
     ret |-> [status |-> "none"], result |-> [status |-> "none"]]

Request(op, cid, digit) ==
    [Idle EXCEPT !.pc = IF op = "dtmf" THEN "L175" ELSE "L257",
                 !.op = op, !.call_id = cid, !.digit = digit]

\* A /ivr/dtmf request with the client-supplied current_menu of DTMFInput.
DtmfInput(cid, digit, current_menu) ==
    [Request("dtmf", cid, digit) EXCEPT !.current_menu = current_menu]

Return(t, r) == [t EXCEPT !.pc = "done", !.result = r]

\* An exception leaving the handler: the request fails, the state stays as it is.
Raise(t, exc) == Return(t, [status |-> "exception", raised |-> exc])

\* A soft answer in the manner of ivr_end instead of the 404.
NotFoundSoft == [status |-> "not_found", detail |-> "Call session not found"]
\* ------------------------------------------------------------ responses
NotFound404 == [status |-> "exception", raised |-> "HTTPException",
                status_code |-> 404, detail |-> "Call session not found"]
InvalidMenuState == [status |-> "error", message |-> "Invalid menu state"]
UnhandledAction == [status |-> "error", message |-> "Unhandled action"]
\* f"You entered {digit}. Enter remaining digits."
PromptMore(digit) == <<"You entered ", digit, ". Enter remaining digits.">>
PromptHash == <<"You entered 6 digits. Press # to confirm PNR or press * to restart.">>
Collecting(prompt, buf) ==
    [status |-> "collecting", prompt |-> prompt, collected |-> buf]
DigitsOnly ==
    [status |-> "invalid", prompt |-> "Only digits are allowed for PNR. Please enter numbers."]
\* The keys of the root menu instead of the current node's.
InvalidOptionRootKeys(menu_key) ==
    [status |-> "invalid", prompt |-> "Invalid option. Please try again.",
     valid |-> OptionKeys("main")]
InvalidOption(menu_key) ==
    [status |-> "invalid", prompt |-> "Invalid option. Please try again.",
     valid |-> OptionKeys(menu_key)]
\* The prompt of the root menu instead of the target's.
ProcessedRootPrompt(message, target) ==
    [status |-> "processed", message |-> message,
     prompt |-> MENU["main"].prompt, current_menu |-> target]
Processed(message, target) ==
    [status |-> "processed", message |-> message,
     prompt |-> MENU[target].prompt, current_menu |-> target]
CallEnded(message) ==
    [status |-> "call_ended", message |-> message, call_action |-> "hangup"]
Transferring(message) ==
    [status |-> "transferring", message |-> message, call_action |-> "transfer"]
\* f"PNR {pnr} confirmed. Flight {info['flight']} {info['route']}."
PnrFound(pnr) ==
    [status |-> "pnr_found",
     message |-> <<"PNR ", pnr, " confirmed. Flight ", "HS123", " ", "Pune -> Mumbai", ".">>]
InvalidPnr ==
    [status |-> "invalid_pnr",
     message |-> "PNR invalid or incomplete. Returning to main menu.",
     call_action |-> "hangup"]
Ended(cid) == [status |-> "ended", call_id |-> cid]
NotFound(cid) == [status |-> "not_found", call_id |-> cid]

\* ------------------------------------------------------------ ivr_dtmf
\* menu_key == "flight_status" and digit != "#"
CollectsDigit(menu_key, digit) == menu_key = "flight_status" /\ digit # Hash

\* The comparison off by one: six digits still "need more".
NeedsMoreDigitsOffByOne(buf) == Len(buf) <= PnrLen

\* len(session["pnr_buffer"]) < 6
NeedsMoreDigits(buf) == Len(buf) < PnrLen

\* len(pnr) == 6
PnrComplete(pnr) == Len(pnr) = PnrLen

\* What ivr_dtmf does between logging the digit and its next access to the
\* session: the menu lookup, the collecting test and the option dispatch.
Dispatch(t) ==
    IF t.menu_key \notin DOMAIN MENU THEN Return(t, InvalidMenuState)
    ELSE IF CollectsDigit(t.menu_key, t.digit)
    THEN IF isdigit(t.digit) THEN [t EXCEPT !.pc = "L192"]
         ELSE Return(t, DigitsOnly)
    ELSE IF t.digit \notin OptionKeys(t.menu_key)
    THEN Return(t, InvalidOption(t.menu_key))
    ELSE LET opt == MENU[t.menu_key].options[t.digit] IN
         CASE opt.action = "goto" ->
                [t EXCEPT !.pc = "L215", !.target = opt.target,
                          !.ret = Processed(opt.msg, opt.target)]
           [] opt.action = "end" ->
                [t EXCEPT !.pc = "L223", !.ret = CallEnded(opt.msg)]
           [] opt.action = "transfer" ->
                [t EXCEPT !.pc = "L231", !.ret = Transferring(opt.msg)]
           [] opt.action = "lookup_pnr" -> [t EXCEPT !.pc = "L239"]
           [] OTHER -> Return(t, UnhandledAction)

\* session["end_time"] = datetime.now().isoformat()
StampEnd(g, t, next) ==
    [g |-> [g EXCEPT !.heap[t.session].end_time = g.clock, !.clock = @ + 1],
     t |-> [t EXCEPT !.pc = next]]

\* Two copies of the session are appended to call_history.
AppendCopyTwice(g, t, next) ==
    [g |-> [g EXCEPT !.call_history = Append(Append(@, Copy(g, t.session)),
                                             Copy(g, t.session))],
     t |-> [t EXCEPT !.pc = next]]
\* call_history.append(session.copy())
AppendCopy(g, t, next) ==
    [g |-> [g EXCEPT !.call_history = Append(@, Copy(g, t.session))],
     t |-> [t EXCEPT !.pc = next]]

\* The handler returns without deleting the session from active_calls.
DeleteActiveForgotten(g, t) == [g |-> g, t |-> Return(t, t.ret)]

\* del active_calls[call_id], then return
DeleteActive(g, t) ==
    IF HasKey(g.active_calls, t.call_id)
    THEN [g |-> [g EXCEPT !.active_calls = DelItem(@, t.call_id)],
          t |-> Return(t, t.ret)]
    ELSE [g |-> g, t |-> Raise(t, "KeyError")]

\* session = active_calls[call_id]
FetchSession(g, t, next) ==
    IF HasKey(g.active_calls, t.call_id)
    THEN [g |-> g,
          t |-> [t EXCEPT !.pc = next, !.session = GetItem(g.active_calls, t.call_id)]]
    ELSE [g |-> g, t |-> Raise(t, "KeyError")]

\* The menu is taken from the request instead of the session.
MenuKeyFromClient(g, t) == t.current_menu

\* menu_key = session["current_menu"]
MenuKey(g, t) == g.heap[t.session].current_menu

\* Only the symbols that are option keys of the current menu are logged.
LogInputIfOption(g, t) ==
    IF t.digit \in OptionKeys(t.menu_key)
    THEN [g EXCEPT !.heap[t.session].inputs = Append(@, t.digit)]
    ELSE g

\* session["inputs"].append(digit)
LogInput(g, t) == [g EXCEPT !.heap[t.session].inputs = Append(@, t.digit)]

\* One step of ivr_dtmf in frame t on store g: the store and the frame after it.
DtmfStep(g, t) ==
    CASE t.pc = "L175" ->
           IF ~HasKey(g.active_calls, t.call_id)
           THEN [g |-> g, t |-> Return(t, NotFound404)]
           ELSE [g |-> g, t |-> [t EXCEPT !.pc = "L178"]]
      [] t.pc = "L178" -> FetchSession(g, t, "L179")
      [] t.pc = "L179" ->
           [g |-> g,
            t |-> [t EXCEPT !.pc = "L180", !.menu_key = MenuKey(g, t)]]
      [] t.pc = "L180" ->
           [g |-> LogInput(g, t), t |-> Dispatch(t)]
      \* session["pnr_buffer"] += digit: a read, then a write
      [] t.pc = "L192" ->
           [g |-> g,
            t |-> [t EXCEPT !.pc = "L192w", !.tmp = g.heap[t.session].pnr_buffer]]
      [] t.pc = "L192w" ->
           [g |-> [g EXCEPT !.heap[t.session].pnr_buffer = t.tmp \o t.digit],
            t |-> [t EXCEPT !.pc = "L194"]]
      [] t.pc = "L194" ->
           [g |-> g,
            t |-> [t EXCEPT !.pc = IF NeedsMoreDigits(g.heap[t.session].pnr_buffer)
                                   THEN "L195" ELSE "L198"]]
      [] t.pc = "L195" ->
           [g |-> g,
            t |-> Return(t, Collecting(PromptMore(t.digit), g.heap[t.session].pnr_buffer))]
      [] t.pc = "L198" ->
           [g |-> g,
            t |-> Return(t, Collecting(PromptHash, g.heap[t.session].pnr_buffer))]
      [] t.pc = "L215" ->
           [g |-> [g EXCEPT !.heap[t.session].current_menu = t.target],
            t |-> [t EXCEPT !.pc = "L216"]]
      [] t.pc = "L216" ->
           [g |-> [g EXCEPT !.heap[t.session].menu_path = Append(@, t.target)],
            t |-> Return(t, t.ret)]
      [] t.pc = "L223" -> StampEnd(g, t, "L224")
      [] t.pc = "L224" -> AppendCopy(g, t, "L225")
      [] t.pc = "L225" -> DeleteActive(g, t)
      [] t.pc = "L231" -> StampEnd(g, t, "L232")
      [] t.pc = "L232" -> AppendCopy(g, t, "L233")
      [] t.pc = "L233" -> DeleteActive(g, t)
      [] t.pc = "L239" ->
           LET pnr == g.heap[t.session].pnr_buffer IN
           IF PnrComplete(pnr)
           THEN [g |-> g, t |-> [t EXCEPT !.pc = "L243", !.tmp = pnr, !.ret = PnrFound(pnr)]]
           ELSE [g |-> g, t |-> [t EXCEPT !.pc = "L248", !.tmp = pnr]]
      [] t.pc = "L243" -> StampEnd(g, t, "L244")
      [] t.pc = "L244" -> AppendCopy(g, t, "L244d")
      [] t.pc = "L244d" -> DeleteActive(g, t)
      [] t.pc = "L248" ->
           [g |-> [g EXCEPT !.heap[t.session].pnr_buffer = <<>>],
            t |-> Return(t, InvalidPnr)]

\* ------------------------------------------------------------ ivr_end
\* One step of ivr_end in frame t on store g.
EndStep(g, t) ==
    CASE t.pc = "L257" ->
           IF HasKey(g.active_calls, t.call_id)
           THEN [g |-> g, t |-> [t EXCEPT !.pc = "L258", !.ret = Ended(t.call_id)]]
           ELSE [g |-> g, t |-> Return(t, NotFound(t.call_id))]
      [] t.pc = "L258" -> FetchSession(g, t, "L259")
      [] t.pc = "L259" -> StampEnd(g, t, "L260")
      [] t.pc = "L260" -> AppendCopy(g, t, "L261")
      [] t.pc = "L261" -> DeleteActive(g, t)

\* One step of whichever handler the frame runs.
Step(g, t) == IF t.op = "dtmf" THEN DtmfStep(g, t) ELSE EndStep(g, t)

\* The handler run to its return with no other request in between.
RECURSIVE Run(_, _)
Run(g, t) ==
    IF t.pc = "done" THEN [g |-> g, t |-> t]
    ELSE LET n == Step(g, t) IN Run(n.g, n.t)

\* ------------------------------------------------------------ specification
\* The ids this run draws from.
CallIds == Ids(profile.ids)

NoRequest == [op |-> "none", call_id |-> None, digit |-> <<>>, result |-> [status |-> "none"]]

RECURSIVE SumInputs(_, _)
SumInputs(h, n) == IF n = 0 THEN 0 ELSE Len(h[n].inputs) + SumInputs(h, n - 1)
\* The symbols logged so far, over all sessions.
TotalInputs == SumInputs(heap, Len(heap))

SetStore(g) ==
    /\ active_calls' = g.active_calls
    /\ call_history' = g.call_history
    /\ heap' = g.heap
    /\ clock' = g.clock

InitStore ==
    /\ active_calls = <<>>
    /\ call_history = <<>>
    /\ heap = <<>>
    /\ clock = 1
    /\ resp = NoRequest
    /\ th = [t \in Threads |-> Idle]
    /\ issued = 0

Init == InitStore /\ profile \in Profiles

\* POST /ivr/start
StartCall ==
    /\ Len(heap) < profile.sessions
    /\ \E cid \in CallIds, caller \in profile.callers :
          /\ SetStore(new_call_session(Store, cid, caller))
          /\ resp' = [op |-> "start", call_id |-> cid, digit |-> <<>>,
                      result |-> StartResponse(cid)]
    /\ UNCHANGED <<th, issued, profile>>

\* POST /ivr/dtmf, served to its response
ApplyInput ==
    /\ TotalInputs < profile.inputs
    /\ \E cid \in CallIds, digit \in profile.symbols :
          LET r == Run(Store, Request("dtmf", cid, digit)) IN
          /\ SetStore(r.g)
          /\ resp' = [op |-> "dtmf", call_id |-> cid, digit |-> digit,
                      result |-> r.t.result]
    /\ UNCHANGED <<th, issued, profile>>

\* POST /ivr/end, served to its response
EndCall ==
    /\ \E cid \in CallIds :
          LET r == Run(Store, Request("end", cid, <<>>)) IN
          /\ SetStore(r.g)
          /\ resp' = [op |-> "end", call_id |-> cid, digit |-> <<>>,
                      result |-> r.t.result]
    /\ UNCHANGED <<th, issued, profile>>

Next == StartCall \/ ApplyInput \/ EndCall

Spec == Init /\ [][Next]_vars

\* ------------------------------------------------- the threaded specification
InitConc == InitStore /\ profile \in ConcProfiles

\* A worker thread takes a /ivr/dtmf request.
BeginDtmf(t) ==
    /\ th[t].pc = "idle"
    /\ issued < MaxConcRequests
    /\ \E cid \in CallIds, digit \in profile.symbols :
          th' = [th EXCEPT ![t] = Request("dtmf", cid, digit)]
    /\ issued' = issued + 1
    /\ UNCHANGED <<active_calls, call_history, heap, clock, resp, profile>>

\* A worker thread takes a /ivr/end request.
BeginEnd(t) ==
    /\ th[t].pc = "idle"
    /\ issued < MaxConcRequests
    /\ \E cid \in CallIds : th' = [th EXCEPT ![t] = Request("end", cid, <<>>)]
    /\ issued' = issued + 1
    /\ UNCHANGED <<active_calls, call_history, heap, clock, resp, profile>>

\* The thread runs its handler up to its next access to shared state.
Advance(t) ==
    /\ th[t].pc \notin {"idle", "done"}
    /\ LET n == Step(Store, th[t]) IN
          /\ SetStore(n.g)
          /\ th' = [th EXCEPT ![t] = n.t]
    /\ UNCHANGED <<resp, issued, profile>>

\* The response is sent and the thread is free again.
Finish(t) ==
    /\ th[t].pc = "done"
    /\ th' = [th EXCEPT ![t] = Idle]
    /\ UNCHANGED <<active_calls, call_history, heap, clock, resp, issued, profile>>

NextConc ==
    \/ StartCall
    \/ \E t \in Threads : BeginDtmf(t)
    \/ \E t \in Threads : BeginEnd(t)
    \/ \E t \in Threads : Advance(t)
    \/ \E t \in Threads : Finish(t)

SpecConc == InitConc /\ [][NextConc]_vars

\* ------------------------------------------------- the Twilio adapter
\* milestone_3/main.py serves the same engine (its ivr_dtmf and ivr_end differ
\* from the backend's in the wording of messages only) and adds two webhook
\* endpoints, which are coroutines of one event loop: each runs to its
\* response before the next webhook is served.

\* The profiles of SpecTwilio.
TwilioProfiles ==
    { \* callers ringing again and again, walking the menus
      Profile({<<"1">>, <<"9">>}, {"+1555000", "+1555001"}, NumIds, MaxSessions,
              MaxMenuInputs),
      \* one caller keying a PNR
      Profile({<<"2">>, <<"1">>, <<"#">>}, {"+1555000"}, 1, 1, MaxInputs) }

\* create_session: like new_call_session, the dict is stored under cid
\* whatever active_calls holds.
create_session(g, cid, caller_number) == new_call_session(g, cid, caller_number)

\* The loop of twilio_dtmf over active_calls.items(): the first session, in
\* the dict's order, whose caller_number is caller; None when there is none.
RECURSIVE FirstMatch(_, _, _)
FirstMatch(g, caller, i) ==
    IF i > Len(g.active_calls) THEN None
    ELSE IF g.heap[g.active_calls[i].v].caller_number = caller
         THEN g.active_calls[i].k
         ELSE FirstMatch(g, caller, i + 1)
Matched(g, caller) == FirstMatch(g, caller, 1)

\* A TwiML response: what is spoken, whether a Gather for one more digit
\* follows, whether "No input received. Goodbye." and a Hangup follow the
\* Gather, and whether the response hangs up.
Twiml(say, gather, noinput, hangup) ==
    [say |-> say, gather |-> gather, noinput |-> noinput, hangup |-> hangup]

\* result.get("prompt") or result.get("message") or default; the engine's
\* prompts and messages are never empty.
PromptOrMessage(result, default) ==
    IF "prompt" \in DOMAIN result THEN result.prompt
    ELSE IF "message" \in DOMAIN result THEN result.message
    ELSE default

\* The TwiML twilio_dtmf builds from the engine's result.
Render(result) ==
    IF \/ result.status = "call_ended"
       \/ ("call_action" \in DOMAIN result /\ result.call_action = "hangup")
    THEN Twiml(IF "message" \in DOMAIN result THEN result.message
               ELSE "Thank you. Goodbye.", FALSE, FALSE, TRUE)
    ELSE IF result.status = "processed"
    THEN Twiml(PromptOrMessage(result, ""), TRUE, TRUE, TRUE)
    ELSE IF result.status \in {"collecting", "invalid"}
    THEN Twiml(PromptOrMessage(result, "Please enter digits."), TRUE, FALSE, FALSE)
    ELSE IF result.status = "pnr_found"
    THEN Twiml(result.message, FALSE, FALSE, TRUE)
    ELSE Twiml("Sorry, something went wrong. Goodbye.", FALSE, FALSE, TRUE)

\* The TwiML of /voice: main's prompt, a Gather, the no-input farewell.
VoiceTwiml == Twiml(MENU["main"].prompt, TRUE, TRUE, TRUE)

InitTwilio == InitStore /\ profile \in TwilioProfiles

\* POST /voice: a call comes in from caller.
Voice ==
    /\ Len(heap) < profile.sessions
    /\ \E cid \in CallIds, caller \in profile.callers :
          /\ SetStore(create_session(Store, cid, caller))
          /\ resp' = [op |-> "voice", call_id |-> cid, caller |-> caller,
                      session |-> Len(heap) + 1,
                      digit |-> <<>>, result |-> [status |-> "twiml"],
                      twiml |-> VoiceTwiml]
    /\ UNCHANGED <<th, issued, profile>>

\* POST /twilio/dtmf: Twilio posts the digits gathered from caller.  The
\* session is the first match, or a new one under a drawn id when there is
\* none; the digits go through ivr_dtmf and the result is rendered.
TwilioDtmf ==
    /\ TotalInputs < profile.inputs
    /\ \E caller \in profile.callers, digits \in profile.symbols, drawn \in CallIds :
          LET found == Matched(Store, caller)
              matched == IF found = None THEN drawn ELSE found
              g1 == IF found = None THEN create_session(Store, drawn, caller)
                    ELSE Store
              \* current_menu=active_calls[matched]["current_menu"]
              r == Run(g1, DtmfInput(matched, digits,
                           g1.heap[GetItem(g1.active_calls, matched)].current_menu))
          IN  /\ found = None => Len(heap) < profile.sessions
              /\ SetStore(r.g)
              /\ resp' = [op |-> "twilio_dtmf", call_id |-> matched,
                          caller |-> caller, session |-> r.t.session,
                          digit |-> digits,
                          result |-> r.t.result, twiml |-> Render(r.t.result)]
    /\ UNCHANGED <<th, issued, profile>>

\* The caller keys nothing within the Gather's timeout.  Twilio goes on to
\* the verbs after the Gather ("No input received. Goodbye." and Hangup, or
\* the end of the document) and the telephony call is over; none of this
\* reaches the server, which has no endpoint for it.
GatherTimeout ==
    /\ resp.op \in {"voice", "twilio_dtmf"}
    /\ resp.twiml.gather
    /\ resp' = [op |-> "no_input", call_id |-> resp.call_id,
                caller |-> resp.caller, session |-> resp.session,
                digit |-> <<>>, result |-> [status |-> "none"],
                twiml |-> resp.twiml]
    /\ UNCHANGED <<active_calls, call_history, heap, clock, th, issued, profile>>

NextTwilio == Voice \/ TwilioDtmf \/ GatherTimeout \/ EndCall

SpecTwilio == InitTwilio /\ [][NextTwilio]_vars
\* ------------------------------------------------- the client's current_menu
\* DTMFInput carries a current_menu field that the client fills in.  Spec
\* and SpecConc leave it at one value; SpecClient lets the client send any
\* of ClientMenus with every digit, and records what it sent.

\* The profiles of SpecClient.
ClientProfiles ==
    { Profile({<<"2">>, <<"1">>, <<"#">>}, {"+1555000"}, 1, 1, MaxMenuInputs),
      Profile({<<"1">>, <<"0">>, <<"9">>}, {"+1555000"}, 1, 1, MaxMenuInputs) }

InitClient == InitStore /\ profile \in ClientProfiles

\* POST /ivr/dtmf with a current_menu of the client's choice
ApplyInputClient ==
    /\ TotalInputs < profile.inputs
    /\ \E cid \in CallIds, digit \in profile.symbols, current_menu \in ClientMenus :
          LET r == Run(Store, DtmfInput(cid, digit, current_menu)) IN
          /\ SetStore(r.g)
          /\ resp' = [op |-> "dtmf", call_id |-> cid, digit |-> digit,
                      current_menu |-> current_menu, result |-> r.t.result]
    /\ UNCHANGED <<th, issued, profile>>

NextClient == StartCall \/ ApplyInputClient \/ EndCall

SpecClient == InitClient /\ [][NextClient]_vars

\* ------------------------------------------------------------ vocabulary
\* The session dict stored under cid.
Addr(cid) == GetItem(active_calls, cid)
IsActive(cid) == HasKey(active_calls, cid)
\* The active session under cid is positioned at node.
ActiveAt(cid, node) == IsActive(cid) /\ heap[Addr(cid)].current_menu = node
\* The step serves /ivr/dtmf for (cid, digit) to its response.
Applied(cid, digit) ==
    resp'.op = "dtmf" /\ resp'.call_id = cid /\ resp'.digit = digit
\* A single decimal digit.
IsOneDigit(s) == Len(s) = 1 /\ s[1] \in DigitChars
\* The step appends exactly one record to the archive: a copy of session a.
ArchivesOnce(a) ==
    /\ Len(call_history') = Len(call_history) + 1
    /\ SubSeq(call_history', 1, Len(call_history)) = call_history
    /\ call_history'[Len(call_history')] = Copy([heap |-> heap'], a)
\* The addresses the active set holds, and those the archive refers to.
ActiveAddrs == {active_calls[i].v : i \in 1..Len(active_calls)}
ArchivedAddrs == {call_history[i].ref : i \in 1..Len(call_history)}
ActiveIds == {active_calls[i].k : i \in 1..Len(active_calls)}
ArchivedIds == {call_history[i].call_id : i \in 1..Len(call_history)}

\* ------------------------------------------------------------ claims
\* C1: whenever '#' is applied to an active session at flight_status whose
\* buffer length is not 6, the response is invalid_pnr with a hangup
\* directive, the buffer is reset to empty, and the session is moved to the
\* archive and removed from the active set.
C1_FailedLookupArchives ==
    [][\A cid \in CallIds :
         (/\ Applied(cid, Hash)
          /\ ActiveAt(cid, "flight_status")
          /\ Len(heap[Addr(cid)].pnr_buffer) # PnrLen)
         => (/\ resp'.result.status = "invalid_pnr"
             /\ resp'.result.call_action = "hangup"
             /\ heap'[Addr(cid)].pnr_buffer = <<>>
             /\ ArchivesOnce(Addr(cid))
             /\ ~HasKey(active_calls', cid))]_vars

\* C2: in every reachable state the buffer of every active session positioned
\* at flight_status holds between 0 and 6 characters.
C2_BufferAtMostSix ==
    \A i \in 1..Len(active_calls) :
        heap[active_calls[i].v].current_menu = "flight_status"
        => Len(heap[active_calls[i].v].pnr_buffer) \in 0..PnrLen

\* C3: ivr_start creates a new distinct session: the returned id is the id of
\* no active and of no archived session, the active set grows by exactly one,
\* the sessions and archive entries there were are unchanged, and the new
\* session is at main with path [main], no inputs, an empty buffer, the
\* response carrying main's prompt.
C3_StartCreatesDistinct ==
    [][resp'.op = "start" /\ Len(heap') = Len(heap) + 1
       => (/\ resp'.call_id \notin ActiveIds \cup ArchivedIds
           /\ Len(active_calls') = Len(active_calls) + 1
           /\ SubSeq(active_calls', 1, Len(active_calls)) = active_calls
           /\ call_history' = call_history
           /\ SubSeq(heap', 1, Len(heap)) = heap
           /\ HasKey(active_calls', resp'.call_id)
           /\ LET new == heap'[GetItem(active_calls', resp'.call_id)] IN
                 /\ new.current_menu = "main"
                 /\ new.menu_path = <<"main">>
                 /\ new.inputs = <<>>
                 /\ new.pnr_buffer = <<>>
           /\ resp'.result.prompt = MENU["main"].prompt)]_vars

\* C4: every session created is in exactly one of the active set and the
\* archive: none is in both, none is in neither, and no session id is in both.
C4_ActiveXorArchived ==
    /\ \A a \in 1..Len(heap) :
          (a \in ActiveAddrs) # (a \in ArchivedAddrs)
    /\ ActiveIds \cap ArchivedIds = {}

\* C7: at flight_status a symbol that is neither the terminator nor a single
\* decimal digit yields "invalid" and leaves the buffer, the current menu and
\* the path as they were.
C7_OnlySingleDigitsCollected ==
    [][\A cid \in CallIds, digit \in profile.symbols :
         (/\ Applied(cid, digit)
          /\ ActiveAt(cid, "flight_status")
          /\ digit # Hash
          /\ ~IsOneDigit(digit))
         => (/\ resp'.result.status = "invalid"
             /\ heap'[Addr(cid)].pnr_buffer = heap[Addr(cid)].pnr_buffer
             /\ heap'[Addr(cid)].current_menu = heap[Addr(cid)].current_menu
             /\ heap'[Addr(cid)].menu_path = heap[Addr(cid)].menu_path)]_vars

\* The option of the session's node that ivr_dtmf dispatches for digit, when
\* the digit is not absorbed by digit collection.
Dispatches(cid, digit) ==
    /\ IsActive(cid)
    /\ ~CollectsDigit(heap[Addr(cid)].current_menu, digit)
    /\ digit \in OptionKeys(heap[Addr(cid)].current_menu)
OptionOf(cid, digit) == MENU[heap[Addr(cid)].current_menu].options[digit]

\* The step archives the session under cid exactly once: its end time is
\* stamped, one copy of it is appended to call_history and it leaves
\* active_calls.
Terminates(cid) ==
    /\ heap'[Addr(cid)].end_time # None
    /\ heap[Addr(cid)].end_time = None
    /\ ArchivesOnce(Addr(cid))
    /\ call_history'[Len(call_history')].end_time = heap'[Addr(cid)].end_time
    /\ ~HasKey(active_calls', cid)
    /\ Len(active_calls') = Len(active_calls) - 1

\* C8: when ivr_dtmf dispatches an end action, a transfer action, or a
\* lookup_pnr with a buffer of exactly 6 characters, the session is archived
\* exactly once, and the response is call_ended with a hangup directive,
\* transferring with a transfer directive, or pnr_found with a message that
\* holds the buffered code.
C8_TerminatingActionsArchiveOnce ==
    [][\A cid \in CallIds, digit \in profile.symbols :
         (Applied(cid, digit) /\ Dispatches(cid, digit))
         => LET opt == OptionOf(cid, digit)
                buf == heap[Addr(cid)].pnr_buffer
            IN  /\ opt.action = "end"
                   => /\ Terminates(cid)
                      /\ resp'.result.status = "call_ended"
                      /\ resp'.result.message = opt.msg
                      /\ resp'.result.call_action = "hangup"
                /\ opt.action = "transfer"
                   => /\ Terminates(cid)
                      /\ resp'.result.status = "transferring"
                      /\ resp'.result.message = opt.msg
                      /\ resp'.result.call_action = "transfer"
                /\ (opt.action = "lookup_pnr" /\ Len(buf) = PnrLen)
                   => /\ Terminates(cid)
                      /\ resp'.result.status = "pnr_found"
                      /\ resp'.result.message[2] = buf]_vars

\* C8's case: a six-character PNR has been confirmed and its session archived.
C8_Witness ==
    /\ resp.op = "dtmf"
    /\ resp.result.status = "pnr_found"
    /\ Len(call_history) = 1
    /\ call_history[1].pnr_buffer = <<"2", "1", "1", "2", "1", "2">>
    /\ active_calls = <<>>

\* C9: for an active session at a non-collecting node and a symbol whose
\* option there is a goto, ivr_dtmf sets current_menu to the target, appends
\* the target to menu_path, leaves the session active, and answers processed
\* with the target's prompt and the option's message.
C9_NavigateMoves ==
    [][\A cid \in CallIds, digit \in profile.symbols :
         (/\ Applied(cid, digit)
          /\ Dispatches(cid, digit)
          /\ heap[Addr(cid)].current_menu # "flight_status"
          /\ OptionOf(cid, digit).action = "goto")
         => LET opt == OptionOf(cid, digit) IN
            /\ heap'[Addr(cid)].current_menu = opt.target
            /\ heap'[Addr(cid)].menu_path = Append(heap[Addr(cid)].menu_path, opt.target)
            /\ active_calls' = active_calls
            /\ call_history' = call_history
            /\ resp'.result.status = "processed"
            /\ resp'.result.prompt = MENU[opt.target].prompt
            /\ resp'.result.message = opt.msg
            /\ resp'.result.current_menu = opt.target]_vars

\* C9's case: '1' at main has led to booking.
C9_Witness ==
    /\ resp.op = "dtmf"
    /\ resp.digit = <<"1">>
    /\ resp.result.status = "processed"
    /\ resp.result.prompt = MENU["booking"].prompt
    /\ ActiveAt(resp.call_id, "booking")
    /\ heap[Addr(resp.call_id)].menu_path = <<"main", "booking">>

\* C10: at flight_status a single decimal digit is appended to the buffer, the
\* session stays active at flight_status, and the response is collecting with
\* collected equal to the buffer after the append; the prompt asks for more
\* digits while fewer than 6 are buffered and for '#' when 6 are buffered.
C10_DigitCollected ==
    [][\A cid \in CallIds, digit \in profile.symbols :
         (/\ Applied(cid, digit)
          /\ ActiveAt(cid, "flight_status")
          /\ IsOneDigit(digit))
         => LET buf == heap[Addr(cid)].pnr_buffer \o digit IN
            /\ heap'[Addr(cid)].pnr_buffer = buf
            /\ active_calls' = active_calls
            /\ call_history' = call_history
            /\ heap'[Addr(cid)].current_menu = "flight_status"
            /\ heap'[Addr(cid)].menu_path = heap[Addr(cid)].menu_path
            /\ resp'.result.status = "collecting"
            /\ resp'.result.collected = buf
            /\ Len(buf) < PnrLen => resp'.result.prompt = PromptMore(digit)
            /\ Len(buf) = PnrLen => resp'.result.prompt = PromptHash]_vars

\* C10's case: the sixth digit has been collected and '#' is asked for.
C10_Witness ==
    /\ resp.op = "dtmf"
    /\ resp.result.status = "collecting"
    /\ resp.result.collected = <<"1", "2", "1", "1", "2", "2">>
    /\ resp.result.prompt = PromptHash
    /\ ActiveAt(resp.call_id, "flight_status")

\* ------------------------------------------------------------ threaded claims
\* C5: a record appended to the archive never changes again (current menu,
\* path, inputs, buffer, end time), and the archive only grows by appending,
\* whatever requests were in progress on its session when it was archived.
C5_ArchiveImmutable ==
    [][/\ Len(call_history') >= Len(call_history)
       /\ \A i \in 1..Len(call_history) :
             Archived(Store, i)' = Archived(Store, i)]_vars

\* No request is being served.
Quiescent == \A t \in Threads : th[t].pc \in {"idle", "done"}

\* A store holding one fresh session, and the store after the symbols of log
\* have been served one after the other.
FreshStore(caller) ==
    new_call_session([active_calls |-> <<>>, call_history |-> <<>>,
                      heap |-> <<>>, clock |-> 1], IdBase, caller)
RECURSIVE Replay(_, _)
Replay(g, log) ==
    IF log = <<>> THEN g
    ELSE Replay(Run(g, Request("dtmf", IdBase, Head(log))).g, Tail(log))

\* The session at address a is what serving its logged symbols one after the
\* other makes of a fresh session.
SerialSession(a) ==
    LET r == Replay(FreshStore(heap[a].caller_number), heap[a].inputs).heap[1] IN
    /\ heap[a].inputs = r.inputs
    /\ heap[a].current_menu = r.current_menu
    /\ heap[a].menu_path = r.menu_path
    /\ heap[a].pnr_buffer = r.pnr_buffer

\* C6, a session gets at most one archive entry.
AtMostOneArchiveEntry ==
    \A a \in 1..Len(heap) :
        Cardinality({i \in 1..Len(call_history) : call_history[i].ref = a}) <= 1
\* C6, no handler fails on a session that another handler removed.
NoKeyError ==
    \A t \in Threads :
        th[t].result.status = "exception" => th[t].result.raised # "KeyError"
\* C6, once the requests are served every session is as some sequential order
\* of them leaves it.
SerialOutcome == Quiescent => \A a \in 1..Len(heap) : SerialSession(a)

\* C6: requests on one session id are serialized: the session gets at most
\* one archive entry, no handler fails on removing an already removed
\* session, and the final state is that of a sequential order of the
\* requests (every symbol logged while collecting is in the buffer).
C6_RequestsSerialized == AtMostOneArchiveEntry /\ NoKeyError /\ SerialOutcome

\* ------------------------------------------------------------ sequential claims
\* C11: for an active session and a symbol that is not an option key of the
\* current node and is not absorbed by digit collection, ivr_dtmf answers
\* invalid with exactly the option keys of the current node as valid symbols,
\* and leaves current_menu, menu_path, pnr_buffer, active_calls and
\* call_history as they were.
C11_UnknownSymbolRejected ==
    [][\A cid \in CallIds, digit \in profile.symbols :
         (/\ Applied(cid, digit)
          /\ IsActive(cid)
          /\ ~CollectsDigit(heap[Addr(cid)].current_menu, digit)
          /\ digit \notin OptionKeys(heap[Addr(cid)].current_menu))
         => (/\ resp'.result.status = "invalid"
             /\ resp'.result.valid = OptionKeys(heap[Addr(cid)].current_menu)
             /\ heap'[Addr(cid)].current_menu = heap[Addr(cid)].current_menu
             /\ heap'[Addr(cid)].menu_path = heap[Addr(cid)].menu_path
             /\ heap'[Addr(cid)].pnr_buffer = heap[Addr(cid)].pnr_buffer
             /\ active_calls' = active_calls
             /\ call_history' = call_history)]_vars

\* C11's case: '4' has been rejected at booking, whose keys are 1, 2, 3, 0.
C11_Witness ==
    /\ resp.op = "dtmf"
    /\ resp.digit = <<"4">>
    /\ resp.result.status = "invalid"
    /\ resp.result.valid = {<<"1">>, <<"2">>, <<"3">>, <<"0">>}
    /\ ActiveAt(resp.call_id, "booking")
    /\ heap[Addr(resp.call_id)].menu_path = <<"main", "booking">>

\* C12 as stated: for a session at main, ivr_dtmf with "7" answers invalid,
\* current_menu stays main and the valid symbols are main's option keys.
C12_SevenInvalidAtMain ==
    [][\A cid \in CallIds :
         (Applied(cid, <<"7">>) /\ ActiveAt(cid, "main"))
         => (/\ resp'.result.status = "invalid"
             /\ resp'.result.valid = OptionKeys("main")
             /\ heap'[Addr(cid)].current_menu = "main")]_vars

\* C12: for a session at main, ivr_dtmf with "0", the one decimal digit main
\* does not assign, answers invalid, current_menu stays main and the valid
\* symbols are main's option keys "1" to "9"; "7" is assigned and leads to
\* advisory.
C12_ZeroInvalidAtMain ==
    [][\A cid \in CallIds :
         /\ (Applied(cid, <<"0">>) /\ ActiveAt(cid, "main"))
            => (/\ resp'.result.status = "invalid"
                /\ resp'.result.valid = OptionKeys("main")
                /\ OptionKeys("main") = {<<d>> : d \in DigitChars \ {"0"}}
                /\ heap'[Addr(cid)].current_menu = "main"
                /\ heap'[Addr(cid)].menu_path = heap[Addr(cid)].menu_path)
         /\ (Applied(cid, <<"7">>) /\ ActiveAt(cid, "main"))
            => (/\ resp'.result.status = "processed"
                /\ resp'.result.prompt = MENU["advisory"].prompt
                /\ heap'[Addr(cid)].current_menu = "advisory")]_vars

\* C12's case: '0' has been rejected at main, with the nine keys of main.
C12_Witness ==
    /\ resp.op = "dtmf"
    /\ resp.digit = <<"0">>
    /\ resp.result.status = "invalid"
    /\ Cardinality(resp.result.valid) = 9
    /\ ActiveAt(resp.call_id, "main")
    /\ heap[Addr(resp.call_id)].menu_path = <<"main">>

\* C13: the buffer of every active session that is not at flight_status is
\* empty, and the buffer in the record of a session that has left
\* flight_status (by a successful lookup or by ivr_end, which archive it) is
\* empty.
C13_BufferEmptyOutsideCollecting ==
    /\ \A i \in 1..Len(active_calls) :
          heap[active_calls[i].v].current_menu # "flight_status"
          => heap[active_calls[i].v].pnr_buffer = <<>>
    /\ \A i \in 1..Len(call_history) :
          /\ call_history[i].pnr_buffer = <<>>
          /\ heap[call_history[i].ref].pnr_buffer = <<>>

\* The step serves /ivr/end for cid to its response.
EndApplied(cid) == resp'.op = "end" /\ resp'.call_id = cid

\* C14: ivr_end on an active session stamps its end time, archives it once,
\* removes it from active_calls and answers ended; ivr_end on an id that is
\* not active (never issued, ended before, or self-terminated) answers
\* not_found and leaves active_calls, call_history and every session as they
\* were, so a second ivr_end adds no archive entry.
C14_EndCallIdempotent ==
    [][\A cid \in CallIds :
         EndApplied(cid)
         => IF IsActive(cid)
            THEN /\ Terminates(cid)
                 /\ resp'.result = Ended(cid)
            ELSE /\ resp'.result = NotFound(cid)
                 /\ active_calls' = active_calls
                 /\ call_history' = call_history
                 /\ heap' = heap]_vars

\* C14's case: a session that received no symbol was ended, and ivr_end was
\* called on its id again.
C14_Witness ==
    /\ resp.op = "end"
    /\ resp.result = NotFound(resp.call_id)
    /\ active_calls = <<>>
    /\ Len(call_history) = 1
    /\ call_history[1].call_id = resp.call_id
    /\ call_history[1].end_time # None
    /\ heap[call_history[1].ref].inputs = <<>>

\* C15: ivr_dtmf with an id that is not in active_calls (never issued, or of
\* a session already archived) fails with HTTP 404 "Call session not found"
\* and changes nothing: active_calls, call_history and every session dict,
\* its inputs included, are as they were.
C15_UnknownSessionRejected ==
    [][\A cid \in CallIds, digit \in profile.symbols :
         (Applied(cid, digit) /\ ~IsActive(cid))
         => (/\ resp'.result.status = "exception"
             /\ resp'.result.raised = "HTTPException"
             /\ resp'.result.status_code = 404
             /\ resp'.result.detail = "Call session not found"
             /\ active_calls' = active_calls
             /\ call_history' = call_history
             /\ heap' = heap)]_vars

\* C15's case: a symbol was sent to the id of a session that a transfer had
\* archived, while another session was active.
C15_Witness ==
    /\ resp.op = "dtmf"
    /\ resp.result.status = "exception"
    /\ resp.result.status_code = 404
    /\ resp.call_id \in ArchivedIds
    /\ ~IsActive(resp.call_id)
    /\ Len(active_calls) = 1
    /\ heap[call_history[1].ref].inputs = <<<<"9">>>>

\* C16: the inputs list of every session is exactly the symbols ivr_dtmf was
\* served for it while it was active, in order: a new session starts with an
\* empty list, every symbol served for an active id is appended to its
\* session's list whatever the response, no other step changes a list, and the
\* record a symbol archives carries the list with that symbol at its end.
C16_InputLogComplete ==
    [][/\ \A a \in 1..Len(heap) :
             heap'[a].inputs =
                IF /\ resp'.op = "dtmf"
                   /\ IsActive(resp'.call_id)
                   /\ Addr(resp'.call_id) = a
                THEN Append(heap[a].inputs, resp'.digit)
                ELSE heap[a].inputs
       /\ \A a \in (Len(heap) + 1)..Len(heap') : heap'[a].inputs = <<>>
       /\ (resp'.op = "dtmf" /\ Len(call_history') > Len(call_history))
          => heap'[call_history'[Len(call_history')].ref].inputs
                = Append(heap[Addr(resp'.call_id)].inputs, resp'.digit)]_vars

\* C16's case: a session was archived by '1' at refunds after '3' had been
\* rejected there; its record holds the three symbols.
C16_Witness ==
    /\ resp.op = "dtmf"
    /\ resp.result.status = "call_ended"
    /\ Len(call_history) = 1
    /\ Archived(Store, 1).inputs = <<<<"4">>, <<"3">>, <<"1">>>>
    /\ Archived(Store, 1).menu_path = <<"main", "refunds">>

\* Node a has a goto option whose target is node b.
Linked(a, b) ==
    \E k \in OptionKeys(a) :
        MENU[a].options[k].action = "goto" /\ MENU[a].options[k].target = b

\* The menu_path of the session at address a is non-empty, starts at main,
\* ends at the session's current menu and moves along goto options only.
PathWellFormed(a) ==
    LET path == heap[a].menu_path IN
    /\ Len(path) >= 1
    /\ path[1] = "main"
    /\ path[Len(path)] = heap[a].current_menu
    /\ \A i \in 1..(Len(path) - 1) : Linked(path[i], path[i + 1])

\* p is a prefix of q.
IsPrefix(p, q) == Len(p) <= Len(q) /\ SubSeq(q, 1, Len(p)) = p

\* C17: whenever no request is being served, the menu_path of every session
\* is non-empty, starts with main, ends with current_menu and has every
\* consecutive pair linked by a goto option of the menu graph; and a
\* menu_path only ever grows by appending.
C17_PathFollowsGraph ==
    [][/\ Quiescent' => \A a \in 1..Len(heap') : PathWellFormed(a)'
       /\ \A a \in 1..Len(heap) : IsPrefix(heap[a].menu_path, heap'[a].menu_path)]_vars

\* The action kinds ivr_dtmf has a branch for.
HandledActions == {"goto", "end", "transfer", "lookup_pnr"}

\* The graph is closed: main is a node, every option has a handled action
\* kind, and every goto target is a node.
MenuClosed ==
    /\ "main" \in DOMAIN MENU
    /\ \A node \in DOMAIN MENU : \A k \in OptionKeys(node) :
          LET opt == MENU[node].options[k] IN
          /\ opt.action \in HandledActions
          /\ opt.action = "goto" => opt.target \in DOMAIN MENU

\* C18: the current_menu of every session is a node of MENU, no response is
\* one of the internal errors ("Invalid menu state", "Unhandled action"), and
\* the graph is closed: every goto target is a node and every action kind is
\* one of the four that ivr_dtmf handles.
C18_NoInternalErrors ==
    /\ \A a \in 1..Len(heap) : heap[a].current_menu \in DOMAIN MENU
    /\ resp.result.status # "error"
    /\ \A t \in Threads : th[t].result.status # "error"
    /\ MenuClosed

\* C18's case: a session has gone to feedback and come back to main, and its
\* symbols were answered without an internal error.
C18_Witness ==
    /\ resp.op = "dtmf"
    /\ resp.digit = <<"0">>
    /\ resp.result.status = "processed"
    /\ ActiveAt(resp.call_id, "main")
    /\ heap[Addr(resp.call_id)].menu_path = <<"main", "feedback", "main">>

\* The key the six-digit prompt offers for restarting PNR entry.
Star == <<"*">>

\* C19: at flight_status with digits buffered, '*' restarts PNR entry as
\* PromptHash promises: pnr_buffer is reset to empty and the session stays
\* active at flight_status.
C19_StarRestartsEntry ==
    [][\A cid \in CallIds :
         (/\ Applied(cid, Star)
          /\ ActiveAt(cid, "flight_status")
          /\ heap[Addr(cid)].pnr_buffer # <<>>)
         => (/\ heap'[Addr(cid)].pnr_buffer = <<>>
             /\ active_calls' = active_calls
             /\ heap'[Addr(cid)].current_menu = "flight_status")]_vars

\* ------------------------------------------------------------ webhook claims
\* The active sessions of caller, by address; addresses grow with creation.
ActiveOf(caller) == {a \in ActiveAddrs : heap[a].caller_number = caller}
MostRecent(S) == CHOOSE a \in S : \A b \in S : b <= a

\* C20: a digit posted to /twilio/dtmf for a caller is applied to the most
\* recently created of the caller's active sessions, and to no other; a new
\* session is created only when the caller has no active session.
C20_LastCreatedWins ==
    [][resp'.op = "twilio_dtmf"
       => LET S == ActiveOf(resp'.caller) IN
          IF S # {}
          THEN /\ Len(heap') = Len(heap)
               /\ heap'[MostRecent(S)].inputs
                     = Append(heap[MostRecent(S)].inputs, resp'.digit)
               /\ \A a \in 1..Len(heap) \ {MostRecent(S)} :
                     heap'[a].inputs = heap[a].inputs
          ELSE /\ Len(heap') = Len(heap) + 1
               /\ heap'[Len(heap')].caller_number = resp'.caller
               /\ heap'[Len(heap')].inputs = <<resp'.digit>>]_vars

\* The telephony call of the exchange served last is over: the TwiML hung up
\* without gathering, or its Gather timed out into the no-input farewell.
CallTerminatedByAdapter ==
    \/ resp.op = "twilio_dtmf" /\ resp.twiml.hangup /\ ~resp.twiml.gather
    \/ resp.op = "no_input" /\ resp.twiml.noinput

\* C21: a session whose telephony call the adapter has terminated (a TwiML
\* that hangs up, or the no-input branch after a Gather) is no longer in
\* active_calls: it is in call_history, and no later webhook of its caller
\* is matched to it.
C21_HungUpSessionsArchived ==
    CallTerminatedByAdapter
    => /\ resp.session \notin ActiveAddrs
       /\ resp.session \in ArchivedAddrs
       /\ Matched(Store, resp.caller) # resp.call_id

\* The outcomes after which the call goes on, and those that end it.
WaitingKinds == {"processed", "collecting", "invalid"}
EndingKinds == {"call_ended", "transferring", "pnr_found"}

\* C22: twilio_dtmf renders the engine's result by its kind: processed,
\* collecting and invalid are spoken by their prompt and followed by a Gather
\* for one more digit; call_ended, transferring and pnr_found are spoken by
\* their own message and followed by a Hangup with no Gather, so none of them
\* is answered with "Sorry, something went wrong. Goodbye.".
C22_RenderedByKind ==
    resp.op = "twilio_dtmf"
    => /\ resp.result.status \in WaitingKinds
          => /\ resp.twiml.say = resp.result.prompt
             /\ resp.twiml.gather
       /\ resp.result.status \in EndingKinds
          => /\ resp.twiml.say = resp.result.message
             /\ resp.twiml.hangup
             /\ ~resp.twiml.gather

\* ------------------------------------------------------------ client claims
\* C23: the session on the server is authoritative: whatever current_menu the
\* client sent with a digit, the response and the store after the request
\* are those of the same request, served in the same state, with any other
\* current_menu.
C23_ClientMenuIgnored ==
    [][resp'.op = "dtmf"
       => \A other \in ClientMenus :
             LET r == Run(Store, DtmfInput(resp'.call_id, resp'.digit, other)) IN
             /\ r.t.result = resp'.result
             /\ r.g.heap = heap'
             /\ r.g.active_calls = active_calls'
             /\ r.g.call_history = call_history']_vars

\* C23's case: the client said flight_status for a session that was at main;
\* its '1' was served as main's option and led to booking.
C23_Witness ==
    /\ resp.op = "dtmf"
    /\ resp.current_menu = "flight_status"
    /\ resp.digit = <<"1">>
    /\ resp.result.status = "processed"
    /\ ActiveAt(resp.call_id, "booking")
    /\ heap[Addr(resp.call_id)].menu_path = <<"main", "booking">>
    /\ heap[Addr(resp.call_id)].pnr_buffer = <<>>

====
